---- MODULE Spec2Model ----
(***************************************************************************)
(* Model of the paropt example scripts:                                    *)
(*   examples/trajectory/brachistochrone/brachistochrone.py                *)
(*     - the BrachistochroneODE component (setup, compute,                 *)
(*       compute_partials) driven by its host framework                    *)
(*     - the script's argument parsing and driver configuration            *)
(*   examples/openmdao/paraboloid_min.py                                   *)
(*     - argument parsing with choices and the driver run                  *)
(*                                                                         *)
(* Numbers are integers.  Physical quantities are fixed-point values in    *)
(* units of 1e-5 (so 9.80665 is 980665).  Angles are whole multiples of    *)
(* pi/2, stored as the multiple k; sin and cos are then exact and take     *)
(* values in {-1, 0, 1}, so products keep the fixed-point unit.            *)
(* Vectors are sequences; node index i (0-based, as in the code) is        *)
(* position i+1 of the sequence.  Row / column indices are kept 0-based.   *)
(***************************************************************************)
EXTENDS Integers, Sequences, FiniteSets, TLC

\* ------------------------------------------------------------------------
\* Bounds of the model
\* ------------------------------------------------------------------------
MaxNodes == 2      \* num_nodes ranges over 1..MaxNodes
MaxCalls == 5      \* number of framework calls after setup

\* ------------------------------------------------------------------------
\* Program constants
\* ------------------------------------------------------------------------
GDefault == 980665          \* val=9.80665 of input 'g', in units of 1e-5
MaxMajorIters == 1000       \* opt_settings['max_major_iters']

VARIABLES
  \* BrachistochroneODE component and the vectors the framework hands it
  options,     \* self.options
  inputs,      \* the inputs vector: v, theta, g
  outputs,     \* the outputs vector: xdot, ydot, vdot
  declared,    \* declare_partials: (of, wrt) -> [rows, cols]
  jacobian,    \* values assigned through jacobian[of, wrt] = ...
  op,          \* last operation performed on the component
  ncalls,      \* number of framework calls since setup
  memo,        \* history: one earlier call, its inputs and its result
  \* brachistochrone.py script
  argv2, pc2, args2, optimizer, algorithm, driver2,
  \* paraboloid_min.py script
  argv1, pc1, args1, prob1, driver1

odeVars == <<options, inputs, outputs, declared, jacobian, op, ncalls, memo>>
s2Vars == <<argv2, pc2, args2, optimizer, algorithm, driver2>>
s1Vars == <<argv1, pc1, args1, prob1, driver1>>
vars == <<options, inputs, outputs, declared, jacobian, op, ncalls, memo,
          argv2, pc2, args2, optimizer, algorithm, driver2,
          argv1, pc1, args1, prob1, driver1>>

\* ------------------------------------------------------------------------
\* numpy
\* ------------------------------------------------------------------------
\* cos(k * pi/2)
Cos(k) == <<1, 0, -1, 0>>[(k % 4) + 1]

\* sin(k * pi/2)
Sin(k) == <<0, 1, 0, -1>>[(k % 4) + 1]

np_cos(a) == [i \in DOMAIN a |-> Cos(a[i])]

np_sin(a) == [i \in DOMAIN a |-> Sin(a[i])]

np_zeros(n) == [i \in 1..n |-> 0]

np_arange(n) == [i \in 1..n |-> i - 1]

\* unary minus on an array
np_neg(a) == [i \in DOMAIN a |-> 0 - a[i]]

\* a * b on one-dimensional arrays, with broadcasting of a length-1 operand;
\* any other shape mismatch has no result (numpy raises), modelled as <<>>
np_mul(a, b) ==
  IF Len(a) = Len(b) THEN [i \in DOMAIN a |-> a[i] * b[i]]
  ELSE IF Len(a) = 1 THEN [i \in DOMAIN b |-> a[1] * b[i]]
  ELSE IF Len(b) = 1 THEN [i \in DOMAIN a |-> a[i] * b[1]]
  ELSE <<>>

\* a + b on arrays of one shape
np_add(a, b) == [i \in DOMAIN a |-> a[i] + b[i]]

\* d[key] = val on a dictionary
SetItem(d, key, val) ==
  [k \in (DOMAIN d) \cup {key} |-> IF k = key THEN val ELSE d[k]]

EmptyDict == [k \in {} |-> 0]

\* ------------------------------------------------------------------------
\* BrachistochroneODE
\* ------------------------------------------------------------------------
\* Variant of setup: (vdot, g) declared with cols=arange, as the other pairs
setup_g_diagonal(opts) ==
  LET nn == opts.num_nodes
      arange == np_arange(opts.num_nodes)
      diag == [rows |-> arange, cols |-> arange]
  IN [inputs   |-> [v |-> np_zeros(nn), g |-> <<GDefault>>, theta |-> np_zeros(nn)],
      outputs  |-> [xdot |-> np_zeros(nn), ydot |-> np_zeros(nn), vdot |-> np_zeros(nn)],
      declared |->
        [key \in {<<"vdot", "g">>, <<"vdot", "theta">>, <<"xdot", "v">>,
                  <<"xdot", "theta">>, <<"ydot", "v">>, <<"ydot", "theta">>}
           |-> diag]]

\* Variant of setup: theta declared with a single value, as g is
setup_scalar_theta(opts) ==
  LET nn == opts.num_nodes
      arange == np_arange(opts.num_nodes)
      diag == [rows |-> arange, cols |-> arange]
  IN [inputs   |-> [v |-> np_zeros(nn), g |-> <<GDefault>>, theta |-> <<0>>],
      outputs  |-> [xdot |-> np_zeros(nn), ydot |-> np_zeros(nn), vdot |-> np_zeros(nn)],
      declared |->
        [key \in {<<"vdot", "g">>, <<"vdot", "theta">>, <<"xdot", "v">>,
                  <<"xdot", "theta">>, <<"ydot", "v">>, <<"ydot", "theta">>}
           |-> IF key = <<"vdot", "g">>
               THEN [rows |-> arange, cols |-> np_zeros(nn)] ELSE diag]]

\* setup(self): the variables and partials the component declares
setup(opts) ==
  LET nn == opts.num_nodes
      arange == np_arange(opts.num_nodes)
  IN [inputs   |-> [v |-> np_zeros(nn), g |-> <<GDefault>>, theta |-> np_zeros(nn)],
      outputs  |-> [xdot |-> np_zeros(nn), ydot |-> np_zeros(nn), vdot |-> np_zeros(nn)],
      declared |->
        (<<"vdot", "g">>     :> [rows |-> arange, cols |-> np_zeros(nn)]) @@
        (<<"vdot", "theta">> :> [rows |-> arange, cols |-> arange]) @@
        (<<"xdot", "v">>     :> [rows |-> arange, cols |-> arange]) @@
        (<<"xdot", "theta">> :> [rows |-> arange, cols |-> arange]) @@
        (<<"ydot", "v">>     :> [rows |-> arange, cols |-> arange]) @@
        (<<"ydot", "theta">> :> [rows |-> arange, cols |-> arange])]

\* Variant of compute: sin and cos exchanged in xdot and ydot
compute_swapped(ins, outs) ==
  LET cos_theta == np_cos(ins.theta)
      sin_theta == np_sin(ins.theta)
  IN [inputs  |-> ins,
      outputs |-> [outs EXCEPT !.vdot = np_mul(ins.g, cos_theta),
                               !.xdot = np_mul(ins.v, cos_theta),
                               !.ydot = np_mul(np_neg(ins.v), sin_theta)]]

\* Variant of compute: the rates are added to the outputs already there
compute_accumulate(ins, outs) ==
  LET cos_theta == np_cos(ins.theta)
      sin_theta == np_sin(ins.theta)
  IN [inputs  |-> ins,
      outputs |-> [outs EXCEPT !.vdot = np_add(@, np_mul(ins.g, cos_theta)),
                               !.xdot = np_add(@, np_mul(ins.v, sin_theta)),
                               !.ydot = np_add(@, np_mul(np_neg(ins.v), cos_theta))]]

\* Variant of compute: cos is taken in place, overwriting inputs['theta']
compute_inplace(ins, outs) ==
  LET cos_theta == np_cos(ins.theta)
      sin_theta == np_sin(ins.theta)
  IN [inputs  |-> [ins EXCEPT !.theta = cos_theta],
      outputs |-> [outs EXCEPT !.vdot = np_mul(ins.g, cos_theta),
                               !.xdot = np_mul(ins.v, sin_theta),
                               !.ydot = np_mul(np_neg(ins.v), cos_theta)]]

\* compute(self, inputs, outputs): the two mutable arguments after the call
compute(ins, outs) ==
  LET theta == ins.theta
      cos_theta == np_cos(theta)
      sin_theta == np_sin(theta)
      g == ins.g
      v == ins.v
  IN [inputs  |-> ins,
      outputs |-> [outs EXCEPT !.vdot = np_mul(g, cos_theta),
                               !.xdot = np_mul(v, sin_theta),
                               !.ydot = np_mul(np_neg(v), cos_theta)]]

\* Variant of compute_partials: d(vdot)/d(theta) without its minus sign
compute_partials_sign(ins, jac) ==
  LET cos_theta == np_cos(ins.theta)
      sin_theta == np_sin(ins.theta)
      j1 == SetItem(jac, <<"vdot", "g">>, cos_theta)
      j2 == SetItem(j1, <<"vdot", "theta">>, np_mul(ins.g, sin_theta))
      j3 == SetItem(j2, <<"xdot", "v">>, sin_theta)
      j4 == SetItem(j3, <<"xdot", "theta">>, np_mul(ins.v, cos_theta))
      j5 == SetItem(j4, <<"ydot", "v">>, np_neg(cos_theta))
      j6 == SetItem(j5, <<"ydot", "theta">>, np_mul(ins.v, sin_theta))
  IN [inputs |-> ins, jacobian |-> j6]

\* Variant of compute_partials: the (ydot, theta) assignment is left out
compute_partials_missing(ins, jac) ==
  LET cos_theta == np_cos(ins.theta)
      sin_theta == np_sin(ins.theta)
      j1 == SetItem(jac, <<"vdot", "g">>, cos_theta)
      j2 == SetItem(j1, <<"vdot", "theta">>, np_mul(np_neg(ins.g), sin_theta))
      j3 == SetItem(j2, <<"xdot", "v">>, sin_theta)
      j4 == SetItem(j3, <<"xdot", "theta">>, np_mul(ins.v, cos_theta))
      j5 == SetItem(j4, <<"ydot", "v">>, np_neg(cos_theta))
  IN [inputs |-> ins, jacobian |-> j5]

\* compute_partials(self, inputs, jacobian): the two mutable arguments after
\* the call
compute_partials(ins, jac) ==
  LET theta == ins.theta
      cos_theta == np_cos(theta)
      sin_theta == np_sin(theta)
      g == ins.g
      v == ins.v
      j1 == SetItem(jac, <<"vdot", "g">>, cos_theta)
      j2 == SetItem(j1, <<"vdot", "theta">>, np_mul(np_neg(g), sin_theta))
      j3 == SetItem(j2, <<"xdot", "v">>, sin_theta)
      j4 == SetItem(j3, <<"xdot", "theta">>, np_mul(v, cos_theta))
      j5 == SetItem(j4, <<"ydot", "v">>, np_neg(cos_theta))
      j6 == SetItem(j5, <<"ydot", "theta">>, np_mul(v, sin_theta))
  IN [inputs |-> ins, jacobian |-> j6]

\* The input vectors the framework supplies: speed v0 + i and angle
\* (k0 + i) * pi/2 at node i, and one shared g.  Shapes are the declared ones.
GSamples == {GDefault, 3}

VSamples == {0, 5}

InputSample(cur, v0, k0, g) ==
  [v     |-> [i \in DOMAIN cur.v |-> v0 + (i - 1)],
   g     |-> [i \in DOMAIN cur.g |-> g],
   theta |-> [i \in DOMAIN cur.theta |-> (k0 + (i - 1)) % 4]]

NoVec == [v |-> <<>>, g |-> <<>>, theta |-> <<>>]

NoOut == [xdot |-> <<>>, ydot |-> <<>>, vdot |-> <<>>]

NoMemo ==
  [kind |-> "none", at |-> 0, inputs |-> NoVec, outputs |-> NoOut,
   jacobian |-> EmptyDict]

\* State after construction: initialize() has declared num_nodes and the
\* framework has passed its value; nothing is set up yet.
InitODE ==
  /\ options \in [num_nodes : 1..MaxNodes]
  /\ inputs = NoVec
  /\ outputs = NoOut
  /\ declared = EmptyDict
  /\ jacobian = EmptyDict
  /\ op = "initialize"
  /\ ncalls = 0
  /\ memo = NoMemo

Setup ==
  /\ op = "initialize"
  /\ LET s == setup(options)
     IN /\ inputs' = s.inputs
        /\ outputs' = s.outputs
        /\ declared' = s.declared
  /\ op' = "setup"
  /\ UNCHANGED <<options, jacobian, ncalls, memo>>

\* The framework writes new values into the input vector before a call
SetInputs ==
  /\ op # "initialize"
  /\ ncalls < MaxCalls
  /\ \E v0 \in VSamples, k0 \in 0..3, g \in GSamples :
       inputs' = InputSample(inputs, v0, k0, g)
  /\ op' = "set_inputs"
  /\ ncalls' = ncalls + 1
  /\ UNCHANGED <<options, outputs, declared, jacobian, memo>>

Compute ==
  /\ op # "initialize"
  /\ ncalls < MaxCalls
  /\ LET r == compute(inputs, outputs)
     IN /\ inputs' = r.inputs
        /\ outputs' = r.outputs
        /\ \/ /\ memo.kind = "none"
              /\ memo' = [kind |-> "compute", at |-> ncalls + 1,
                          inputs |-> r.inputs, outputs |-> r.outputs,
                          jacobian |-> EmptyDict]
           \/ memo' = memo
  /\ op' = "compute"
  /\ ncalls' = ncalls + 1
  /\ UNCHANGED <<options, declared, jacobian>>

ComputePartials ==
  /\ op # "initialize"
  /\ ncalls < MaxCalls
  /\ LET r == compute_partials(inputs, jacobian)
     IN /\ inputs' = r.inputs
        /\ jacobian' = r.jacobian
        /\ \/ /\ memo.kind = "none"
              /\ memo' = [kind |-> "compute_partials", at |-> ncalls + 1,
                          inputs |-> r.inputs, outputs |-> NoOut,
                          jacobian |-> r.jacobian]
           \/ memo' = memo
  /\ op' = "compute_partials"
  /\ ncalls' = ncalls + 1
  /\ UNCHANGED <<options, outputs, declared>>

\* ------------------------------------------------------------------------
\* argparse
\* ------------------------------------------------------------------------
\* The command line is a sequence of tokens: flag, value, flag, value, ...
\* The values given to flag, in command-line order
RECURSIVE FlagValues(_, _)
FlagValues(argv, flag) ==
  IF Len(argv) < 2 THEN <<>>
  ELSE IF argv[1] = flag
       THEN <<argv[2]>> \o FlagValues(SubSeq(argv, 3, Len(argv)), flag)
       ELSE FlagValues(SubSeq(argv, 3, Len(argv)), flag)

\* Value stored for flag: the last one given, the default when none is
StoredValue(argv, flag, default) ==
  LET vals == FlagValues(argv, flag)
  IN IF vals = <<>> THEN default ELSE vals[Len(vals)]

\* Command lines of at most n (flag, value) pairs over the given flags, values
RECURSIVE CommandLines(_, _, _)
CommandLines(n, flags, values) ==
  IF n = 0 THEN {<<>>}
  ELSE LET shorter == CommandLines(n - 1, flags, values)
       IN shorter \cup
          {line \o <<f, x>> : line \in shorter, f \in flags, x \in values}

MaxFlags == 2      \* (flag, value) pairs on a command line

\* ------------------------------------------------------------------------
\* brachistochrone.py, the script
\* ------------------------------------------------------------------------
Values2 == {"ParOpt", "SLSQP", "IPOPT", "tr", "ip", "mma"}

\* parser.parse_args(): no choices are declared, every value is stored
parse_args2(argv) ==
  [optimizer |-> StoredValue(argv, "--optimizer", "ParOpt"),
   algorithm |-> StoredValue(argv, "--algorithm", "tr")]

IPSettings ==
  ("algorithm" :> "ip") @@ ("norm_type" :> "infinity") @@
  ("max_major_iters" :> MaxMajorIters) @@ ("barrier_strategy" :> "mehrotra") @@
  ("starting_point_strategy" :> "affine_step") @@ ("qn_type" :> "bfgs")

\* Variant of the driver configuration: the interior-point branch is taken
\* for algorithm == "ip" and the trust-region branch otherwise
configure_driver_ip_test(drv, opt, alg) ==
  IF opt = "SLSQP"
  THEN [drv EXCEPT !.options = SetItem(@, "optimizer", "SLSQP")]
  ELSE IF alg = "ip"
       THEN [drv EXCEPT !.options = SetItem(@, "optimizer", "ParOpt"),
                        !.opt_settings = IPSettings @@ @]
       ELSE [drv EXCEPT !.options = SetItem(@, "optimizer", "ParOpt"),
                        !.opt_settings = SetItem(@, "algorithm", "tr")]

\* Variant of the driver configuration: ParOpt is chosen by name and every
\* other optimizer falls to the SLSQP branch
configure_driver_paropt_test(drv, opt, alg) ==
  IF opt # "ParOpt"
  THEN [drv EXCEPT !.options = SetItem(@, "optimizer", "SLSQP")]
  ELSE IF alg = "tr"
       THEN [drv EXCEPT !.options = SetItem(@, "optimizer", "ParOpt"),
                        !.opt_settings = SetItem(@, "algorithm", "tr")]
       ELSE [drv EXCEPT !.options = SetItem(@, "optimizer", "ParOpt"),
                        !.opt_settings = IPSettings @@ @]

\* The driver after "Set the driver": options and opt_settings as assigned
configure_driver(drv, opt, alg) ==
  IF opt = "SLSQP"
  THEN [drv EXCEPT !.options = SetItem(@, "optimizer", "SLSQP")]
  ELSE IF alg = "tr"
       THEN [drv EXCEPT !.options = SetItem(@, "optimizer", "ParOpt"),
                        !.opt_settings = SetItem(@, "algorithm", "tr")]
       ELSE [drv EXCEPT !.options = SetItem(@, "optimizer", "ParOpt"),
                        !.opt_settings = IPSettings @@ @]

NoDriver == [name |-> "none", options |-> EmptyDict, opt_settings |-> EmptyDict]

NoArgs2 == [optimizer |-> "", algorithm |-> ""]

InitIdle2 ==
  /\ argv2 = <<>>
  /\ pc2 = "idle"
  /\ args2 = NoArgs2
  /\ optimizer = ""
  /\ algorithm = ""
  /\ driver2 = NoDriver

InitScript2 ==
  /\ argv2 \in CommandLines(MaxFlags, {"--optimizer", "--algorithm"}, Values2)
  /\ pc2 = "parse_args"
  /\ args2 = NoArgs2
  /\ optimizer = ""
  /\ algorithm = ""
  /\ driver2 = NoDriver

ParseArgs2 ==
  /\ pc2 = "parse_args"
  /\ args2' = parse_args2(argv2)
  /\ pc2' = "read_args"
  /\ UNCHANGED <<argv2, optimizer, algorithm, driver2>>

ReadArgs2 ==
  /\ pc2 = "read_args"
  /\ optimizer' = args2.optimizer
  /\ algorithm' = args2.algorithm
  /\ pc2' = "define_problem"
  /\ UNCHANGED <<argv2, args2, driver2>>

\* Problem, Trajectory, Phase, states, control and objective: no driver yet
DefineProblem2 ==
  /\ pc2 = "define_problem"
  /\ pc2' = "create_driver"
  /\ UNCHANGED <<argv2, args2, optimizer, algorithm, driver2>>

CreateDriver2 ==
  /\ pc2 = "create_driver"
  /\ driver2' = [name |-> "pyOptSparseDriver", options |-> EmptyDict,
                 opt_settings |-> EmptyDict]
  /\ pc2' = "configure_driver"
  /\ UNCHANGED <<argv2, args2, optimizer, algorithm>>

ConfigureDriver2 ==
  /\ pc2 = "configure_driver"
  /\ driver2' = configure_driver(driver2, optimizer, algorithm)
  /\ pc2' = "setup"
  /\ UNCHANGED <<argv2, args2, optimizer, algorithm>>

SetupProblem2 ==
  /\ pc2 = "setup"
  /\ pc2' = "set_val"
  /\ UNCHANGED <<argv2, args2, optimizer, algorithm, driver2>>

SetValues2 ==
  /\ pc2 = "set_val"
  /\ pc2' = "run_driver"
  /\ UNCHANGED <<argv2, args2, optimizer, algorithm, driver2>>

RunDriver2 ==
  /\ pc2 = "run_driver"
  /\ pc2' = "plot"
  /\ UNCHANGED <<argv2, args2, optimizer, algorithm, driver2>>

SimulateAndPlot2 ==
  /\ pc2 = "plot"
  /\ pc2' = "done"
  /\ UNCHANGED <<argv2, args2, optimizer, algorithm, driver2>>

\* ------------------------------------------------------------------------
\* paraboloid_min.py
\* ------------------------------------------------------------------------
Values1 == {"ip", "tr", "mma", "slsqp", "IP"}

\* Variant of parse_args: no choices declared for --algorithm
parse_args1_no_choices(argv) ==
  [status |-> "ok", algorithm |-> StoredValue(argv, "--algorithm", "ip")]

\* parser.parse_args() with choices=['ip', 'tr', 'mma'], default='ip': every
\* value given is checked against the choices; a value outside them ends the
\* program through parser.error
parse_args1(argv) ==
  LET vals == FlagValues(argv, "--algorithm")
  IN IF \E k \in DOMAIN vals : vals[k] \notin {"ip", "tr", "mma"}
     THEN [status |-> "error", algorithm |-> ""]
     ELSE [status |-> "ok", algorithm |-> StoredValue(argv, "--algorithm", "ip")]

\* ExecComp('f = (x-3)**2 + x*y + (y+4)**2 - 3')
paraboloid_f(x, y) == (x - 3) * (x - 3) + x * y + (y + 4) * (y + 4) - 3

\* ExecComp('c = x + y')
con_c(x, y) == x + y

NoProblem ==
  [created |-> FALSE, subsystems |-> {}, connections |-> {},
   design_vars |-> {}, objectives |-> {}, constraints |-> {},
   is_setup |-> FALSE, setup_with |-> "", ran_with |-> "", x |-> 0, y |-> 0, f |-> 0,
   stdout |-> <<>>]

NoArgs1 == [status |-> "", algorithm |-> ""]

InitIdle1 ==
  /\ argv1 = <<>>
  /\ pc1 = "idle"
  /\ args1 = NoArgs1
  /\ prob1 = NoProblem
  /\ driver1 = NoDriver

InitScript1 ==
  /\ argv1 \in CommandLines(MaxFlags, {"--algorithm"}, Values1)
  /\ pc1 = "parse_args"
  /\ args1 = NoArgs1
  /\ prob1 = NoProblem
  /\ driver1 = NoDriver

ParseArgs1 ==
  /\ pc1 = "parse_args"
  /\ args1' = parse_args1(argv1)
  /\ pc1' = IF args1'.status = "ok" THEN "build_model" ELSE "exit"
  /\ UNCHANGED <<argv1, prob1, driver1>>

BuildModel1 ==
  /\ pc1 = "build_model"
  /\ prob1' = [prob1 EXCEPT !.created = TRUE]
  /\ pc1' = "define_variables"
  /\ UNCHANGED <<argv1, args1, driver1>>

DefineVariables1 ==
  /\ pc1 = "define_variables"
  /\ prob1' = [prob1 EXCEPT !.subsystems = @ \cup {"indeps"}, !.x = 3, !.y = -4]
  /\ pc1' = "define_functions"
  /\ UNCHANGED <<argv1, args1, driver1>>

DefineFunctions1 ==
  /\ pc1 = "define_functions"
  /\ prob1' = [prob1 EXCEPT !.subsystems = @ \cup {"paraboloid", "con"}]
  /\ pc1' = "connect"
  /\ UNCHANGED <<argv1, args1, driver1>>

ConnectModel1 ==
  /\ pc1 = "connect"
  /\ prob1' = [prob1 EXCEPT !.connections =
                 {<<"indeps.x", "paraboloid.x">>, <<"indeps.y", "paraboloid.y">>,
                  <<"indeps.x", "con.x">>, <<"indeps.y", "con.y">>}]
  /\ pc1' = "define_optimization"
  /\ UNCHANGED <<argv1, args1, driver1>>

DefineOptimization1 ==
  /\ pc1 = "define_optimization"
  /\ prob1' = [prob1 EXCEPT !.design_vars = {"indeps.x", "indeps.y"},
                            !.objectives = {"paraboloid.f"},
                            !.constraints = {"con.c"}]
  /\ pc1' = "create_driver"
  /\ UNCHANGED <<argv1, args1, driver1>>

CreateDriver1 ==
  /\ pc1 = "create_driver"
  /\ driver1' = [name |-> "ParOptDriver", options |-> EmptyDict,
                 opt_settings |-> EmptyDict]
  /\ pc1' = "set_options"
  /\ UNCHANGED <<argv1, args1, prob1>>

SetOptions1 ==
  /\ pc1 = "set_options"
  /\ driver1' = [driver1 EXCEPT !.options = SetItem(@, "algorithm", args1.algorithm)]
  /\ pc1' = "setup"
  /\ UNCHANGED <<argv1, args1, prob1>>

SetupProblem1 ==
  /\ pc1 = "setup"
  /\ prob1' = [prob1 EXCEPT !.is_setup = TRUE,
                            !.setup_with = driver1.options["algorithm"]]
  /\ pc1' = "run_driver"
  /\ UNCHANGED <<argv1, args1, driver1>>

\* Design points the driver may stop at, within the bounds [-50, 50] and
\* satisfying con.c >= 0: the start is infeasible, (7, -7) is the minimum
DesignPoints == {<<7, -7>>, <<4, -4>>, <<50, 50>>}

RunDriver1 ==
  /\ pc1 = "run_driver"
  /\ \E pt \in DesignPoints :
       prob1' = [prob1 EXCEPT !.ran_with = driver1.options["algorithm"],
                              !.x = pt[1], !.y = pt[2],
                              !.f = paraboloid_f(pt[1], pt[2])]
  /\ pc1' = "print_min"
  /\ UNCHANGED <<argv1, args1, driver1>>

PrintMinimum1 ==
  /\ pc1 = "print_min"
  /\ prob1' = [prob1 EXCEPT !.stdout = Append(@, <<"Minimum value", prob1.f>>)]
  /\ pc1' = "print_xy"
  /\ UNCHANGED <<argv1, args1, driver1>>

PrintLocation1 ==
  /\ pc1 = "print_xy"
  /\ prob1' = [prob1 EXCEPT !.stdout = Append(@, <<"(x, y)", prob1.x, prob1.y>>)]
  /\ pc1' = "done"
  /\ UNCHANGED <<argv1, args1, driver1>>

InitIdleODE ==
  /\ options = [num_nodes |-> 1]
  /\ inputs = NoVec
  /\ outputs = NoOut
  /\ declared = EmptyDict
  /\ jacobian = EmptyDict
  /\ op = "idle"
  /\ ncalls = 0
  /\ memo = NoMemo

NextODE ==
  \/ Setup /\ UNCHANGED s1Vars /\ UNCHANGED s2Vars
  \/ SetInputs /\ UNCHANGED s1Vars /\ UNCHANGED s2Vars
  \/ Compute /\ UNCHANGED s1Vars /\ UNCHANGED s2Vars
  \/ ComputePartials /\ UNCHANGED s1Vars /\ UNCHANGED s2Vars

\* The component alone, the scripts not started
InitComponent == InitODE /\ InitIdle1 /\ InitIdle2

SpecODE == InitComponent /\ [][NextODE]_vars

NextScript2 ==
  \/ ParseArgs2 /\ UNCHANGED odeVars /\ UNCHANGED s1Vars
  \/ ReadArgs2 /\ UNCHANGED odeVars /\ UNCHANGED s1Vars
  \/ DefineProblem2 /\ UNCHANGED odeVars /\ UNCHANGED s1Vars
  \/ CreateDriver2 /\ UNCHANGED odeVars /\ UNCHANGED s1Vars
  \/ ConfigureDriver2 /\ UNCHANGED odeVars /\ UNCHANGED s1Vars
  \/ SetupProblem2 /\ UNCHANGED odeVars /\ UNCHANGED s1Vars
  \/ SetValues2 /\ UNCHANGED odeVars /\ UNCHANGED s1Vars
  \/ RunDriver2 /\ UNCHANGED odeVars /\ UNCHANGED s1Vars
  \/ SimulateAndPlot2 /\ UNCHANGED odeVars /\ UNCHANGED s1Vars

\* brachistochrone.py from its first statement
InitBrachistochrone == InitScript2 /\ InitIdleODE /\ InitIdle1

SpecScript2 == InitBrachistochrone /\ [][NextScript2]_vars

NextScript1 ==
  \/ ParseArgs1 /\ UNCHANGED odeVars /\ UNCHANGED s2Vars
  \/ BuildModel1 /\ UNCHANGED odeVars /\ UNCHANGED s2Vars
  \/ DefineVariables1 /\ UNCHANGED odeVars /\ UNCHANGED s2Vars
  \/ DefineFunctions1 /\ UNCHANGED odeVars /\ UNCHANGED s2Vars
  \/ ConnectModel1 /\ UNCHANGED odeVars /\ UNCHANGED s2Vars
  \/ DefineOptimization1 /\ UNCHANGED odeVars /\ UNCHANGED s2Vars
  \/ CreateDriver1 /\ UNCHANGED odeVars /\ UNCHANGED s2Vars
  \/ SetOptions1 /\ UNCHANGED odeVars /\ UNCHANGED s2Vars
  \/ SetupProblem1 /\ UNCHANGED odeVars /\ UNCHANGED s2Vars
  \/ RunDriver1 /\ UNCHANGED odeVars /\ UNCHANGED s2Vars
  \/ PrintMinimum1 /\ UNCHANGED odeVars /\ UNCHANGED s2Vars
  \/ PrintLocation1 /\ UNCHANGED odeVars /\ UNCHANGED s2Vars

\* paraboloid_min.py from its first statement
InitParaboloid == InitScript1 /\ InitIdleODE /\ InitIdle2

SpecScript1 == InitParaboloid /\ [][NextScript1]_vars

\* ------------------------------------------------------------------------
\* Properties of the BrachistochroneODE component (SpecODE)
\* ------------------------------------------------------------------------
N == options.num_nodes

Nodes == 0..(N - 1)

\* value of a vector at 0-based node index i
At(vec, i) == vec[i + 1]

\* C1: after compute, at every node i of the N nodes,
\* vdot[i] = g*cos(theta[i]), xdot[i] = v[i]*sin(theta[i]) and
\* ydot[i] = -v[i]*cos(theta[i]), g being the single shared value.
C1_ComputeRates ==
  op = "compute" =>
    /\ DOMAIN outputs.vdot = 1..N
    /\ DOMAIN outputs.xdot = 1..N
    /\ DOMAIN outputs.ydot = 1..N
    /\ \A i \in Nodes :
         /\ At(outputs.vdot, i) = inputs.g[1] * Cos(At(inputs.theta, i))
         /\ At(outputs.xdot, i) = At(inputs.v, i) * Sin(At(inputs.theta, i))
         /\ At(outputs.ydot, i) = 0 - (At(inputs.v, i) * Cos(At(inputs.theta, i)))

C1_Witness ==
  /\ op = "compute"
  /\ N >= 2
  /\ inputs.g[1] # GDefault
  /\ \E i \in Nodes : At(outputs.vdot, i) # 0
  /\ \E i \in Nodes : At(outputs.xdot, i) > 0
  /\ \E i \in Nodes : At(outputs.ydot, i) > 0

\* The rate named of at node i that compute assigns for the inputs ins
Rate(ins, of, i) == At(compute(ins, NoOut).outputs[of], i)

\* ins with the entry of input wrt that node i reads raised by one unit
\* (for theta: by one quarter turn); g has the single entry every node reads
Bump(ins, wrt, i) ==
  IF wrt = "g" THEN [ins EXCEPT !.g[1] = @ + 1]
  ELSE [ins EXCEPT ![wrt][i + 1] = @ + 1]

\* Exact partial derivative of rate of at node i with respect to the entry of
\* wrt it reads.  The rates are linear in v and in g, so the derivative is the
\* difference over one unit; in theta they are combinations of sin and cos, and
\* d/dtheta f(theta) = f(theta + pi/2) for every such combination.
Derivative(ins, of, wrt, i) ==
  IF wrt = "theta" THEN Rate(Bump(ins, wrt, i), of, i)
  ELSE Rate(Bump(ins, wrt, i), of, i) - Rate(ins, of, i)

\* C2: after compute_partials the six Jacobian value arrays hold, at every
\* node, the closed-form derivatives with their signs, and each entry is the
\* exact partial derivative of the rate compute assigns at that node.
C2_PartialsClosedForm ==
  op = "compute_partials" =>
    \A i \in Nodes :
      LET g == inputs.g[1]
          v == At(inputs.v, i)
          th == At(inputs.theta, i)
      IN /\ At(jacobian[<<"vdot", "g">>], i) = Cos(th)
         /\ At(jacobian[<<"vdot", "theta">>], i) = 0 - (g * Sin(th))
         /\ At(jacobian[<<"xdot", "v">>], i) = Sin(th)
         /\ At(jacobian[<<"xdot", "theta">>], i) = v * Cos(th)
         /\ At(jacobian[<<"ydot", "v">>], i) = 0 - Cos(th)
         /\ At(jacobian[<<"ydot", "theta">>], i) = v * Sin(th)
         /\ \A key \in DOMAIN jacobian :
              At(jacobian[key], i) = Derivative(inputs, key[1], key[2], i)

C2_Witness ==
  /\ op = "compute_partials"
  /\ N >= 2
  /\ \E i \in Nodes : At(jacobian[<<"vdot", "theta">>], i) < 0
  /\ \E i \in Nodes : At(jacobian[<<"ydot", "theta">>], i) > 0
  /\ \E i \in Nodes : At(jacobian[<<"ydot", "v">>], i) > 0
  /\ \E i \in Nodes : At(jacobian[<<"xdot", "theta">>], i) < 0

\* the (row, column) index pairs of a declaration
IndexPairs(decl) == {<<decl.rows[k], decl.cols[k]>> : k \in DOMAIN decl.rows}

DiagonalKeys ==
  {<<"vdot", "theta">>, <<"xdot", "v">>, <<"xdot", "theta">>,
   <<"ydot", "v">>, <<"ydot", "theta">>}

\* C3: setup declares each of (vdot,theta), (xdot,v), (xdot,theta), (ydot,v),
\* (ydot,theta) with exactly the index pairs (i,i), 0 <= i < N, and (vdot,g)
\* with exactly the pairs (i,0), 0 <= i < N.
C3_Sparsity ==
  op # "initialize" =>
    /\ \A key \in DiagonalKeys :
         /\ key \in DOMAIN declared
         /\ Len(declared[key].rows) = N
         /\ Len(declared[key].cols) = N
         /\ IndexPairs(declared[key]) = {<<i, i>> : i \in Nodes}
    /\ <<"vdot", "g">> \in DOMAIN declared
    /\ Len(declared[<<"vdot", "g">>].rows) = N
    /\ Len(declared[<<"vdot", "g">>].cols) = N
    /\ IndexPairs(declared[<<"vdot", "g">>]) = {<<i, 0>> : i \in Nodes}

C3_Witness ==
  /\ op = "setup"
  /\ N >= 2
  /\ <<1, 1>> \in IndexPairs(declared[<<"xdot", "theta">>])
  /\ <<1, 0>> \in IndexPairs(declared[<<"vdot", "g">>])

\* C7: a call of compute (of compute_partials) yields the same outputs
\* (Jacobian values) as any earlier call made with the same inputs, whatever
\* calls and inputs came in between.
C7_Idempotent ==
  /\ (op = "compute" /\ memo.kind = "compute" /\ memo.inputs = inputs)
       => outputs = memo.outputs
  /\ (op = "compute_partials" /\ memo.kind = "compute_partials"
         /\ memo.inputs = inputs)
       => jacobian = memo.jacobian

C7_Witness ==
  /\ op = "compute"
  /\ memo.kind = "compute"
  /\ memo.inputs = inputs
  /\ memo.at + 4 <= ncalls
  /\ jacobian # EmptyDict
  /\ \E i \in Nodes : At(outputs.vdot, i) # 0

\* C8: a compute call leaves the inputs, the Jacobian values, the declared
\* partials and the options unchanged; a compute_partials call leaves the
\* inputs, the outputs, the declared partials and the options unchanged.
C8_Frame ==
  [][ /\ (op' = "compute" /\ ncalls' = ncalls + 1) =>
           (inputs' = inputs /\ jacobian' = jacobian
              /\ declared' = declared /\ options' = options)
      /\ (op' = "compute_partials" /\ ncalls' = ncalls + 1) =>
           (inputs' = inputs /\ outputs' = outputs
              /\ declared' = declared /\ options' = options) ]_vars

C8_Witness ==
  /\ op = "compute"
  /\ jacobian # EmptyDict
  /\ \E i \in Nodes : At(inputs.theta, i) = 3
  /\ \E i \in Nodes : At(outputs.ydot, i) # 0

ShapeOK ==
  op # "initialize" =>
    /\ Len(inputs.v) = N
    /\ Len(inputs.theta) = N
    /\ Len(outputs.xdot) = N
    /\ Len(outputs.ydot) = N
    /\ Len(outputs.vdot) = N
    /\ \A key \in DOMAIN jacobian :
         /\ key \in DOMAIN declared
         /\ Len(jacobian[key]) = N
         /\ Len(jacobian[key]) = Len(declared[key].rows)

\* C9: once set up with num_nodes = N, v, theta, xdot, ydot and vdot have
\* length N and every Jacobian value array has N entries, one per declared
\* index pair, in every state; no call changes N or the declared index pairs.
C9_Shape ==
  /\ []ShapeOK
  /\ [][op # "initialize" => (options' = options /\ declared' = declared)]_vars

C9_Witness ==
  /\ op = "compute_partials"
  /\ N >= 2
  /\ ncalls >= 3
  /\ \E i \in Nodes : At(outputs.vdot, i) # 0
  /\ Len(jacobian[<<"vdot", "g">>]) = N

OutputNames == {"xdot", "ydot", "vdot"}

InputNames == {"v", "theta", "g"}

\* With n nodes, the formula compute assigns to output of mentions input wrt:
\* raising some entry of wrt changes some entry of of
Mentions(n, of, wrt) ==
  \E v0 \in VSamples, k0 \in 0..3, g \in GSamples, i \in 0..(n - 1) :
    LET ins == InputSample(setup([num_nodes |-> n]).inputs, v0, k0, g)
    IN Rate(Bump(ins, wrt, i), of, i) # Rate(ins, of, i)

\* the (n, output, input) triples with the input mentioned
MentionedPairs ==
  UNION {IF Mentions(n, of, wrt) THEN {<<n, of, wrt>>} ELSE {} :
           n \in 1..MaxNodes, of \in OutputNames, wrt \in InputNames}

\* C10: compute_partials assigns exactly the pairs setup declares, the six
\* pairs (vdot,g), (vdot,theta), (xdot,v), (xdot,theta), (ydot,v),
\* (ydot,theta); the three other pairs are exactly those whose rate formula
\* does not mention the input.
C10_DeclaredFilled ==
  op = "compute_partials" =>
    /\ DOMAIN jacobian = DOMAIN declared
    /\ DOMAIN declared = DiagonalKeys \cup {<<"vdot", "g">>}
    /\ \A of \in OutputNames, wrt \in InputNames :
         (<<of, wrt>> \in DOMAIN declared) <=> (<<N, of, wrt>> \in MentionedPairs)
    /\ (OutputNames \X InputNames) \ DOMAIN declared =
         {<<"vdot", "v">>, <<"xdot", "g">>, <<"ydot", "g">>}

C10_Witness ==
  /\ op = "compute_partials"
  /\ ncalls = 1
  /\ Cardinality(DOMAIN jacobian) = 6
  /\ <<N, "vdot", "v">> \notin MentionedPairs
  /\ <<N, "vdot", "g">> \in MentionedPairs
\* ------------------------------------------------------------------------
\* Properties of the scripts
\* ------------------------------------------------------------------------
\* The value the command line gives to flag: the one after its last
\* occurrence, the default when the flag is absent
Given(argv, flag, default) ==
  LET at == {k \in DOMAIN argv : k % 2 = 1 /\ argv[k] = flag}
  IN IF at = {} THEN default
     ELSE argv[(CHOOSE k \in at : \A j \in at : j <= k) + 1]

Lookup(d, key) == IF key \in DOMAIN d THEN d[key] ELSE "<unset>"

Configured2 == pc2 \in {"setup", "set_val", "run_driver", "plot", "done"}

IsIP(settings) ==
  /\ DOMAIN settings =
       {"algorithm", "norm_type", "max_major_iters", "barrier_strategy",
        "starting_point_strategy", "qn_type"}
  /\ settings["algorithm"] = "ip"
  /\ settings["norm_type"] = "infinity"
  /\ settings["max_major_iters"] = 1000
  /\ settings["barrier_strategy"] = "mehrotra"
  /\ settings["starting_point_strategy"] = "affine_step"
  /\ settings["qn_type"] = "bfgs"

IsTR(settings) ==
  /\ DOMAIN settings = {"algorithm"}
  /\ settings["algorithm"] = "tr"

C5_EveryOptimizer ==
  Configured2 =>
    IF Given(argv2, "--algorithm", "tr") = "tr"
    THEN IsTR(driver2.opt_settings)
    ELSE IsIP(driver2.opt_settings)

\* C5 amended: for every --optimizer value other than 'SLSQP', an --algorithm
\* value other than 'tr' leaves the driver with the interior-point settings,
\* and 'tr' (also the default) leaves it with algorithm='tr' and none of those
\* settings; with --optimizer 'SLSQP' the driver gets no algorithm setting and
\* no interior-point setting, whatever the --algorithm value.
C5_UnlessSLSQP ==
  Configured2 =>
    IF Given(argv2, "--optimizer", "ParOpt") = "SLSQP"
    THEN DOMAIN driver2.opt_settings = {}
    ELSE IF Given(argv2, "--algorithm", "tr") = "tr"
         THEN IsTR(driver2.opt_settings)
         ELSE IsIP(driver2.opt_settings)

C5_Witness ==
  /\ pc2 = "run_driver"
  /\ "--optimizer" \notin {argv2[k] : k \in DOMAIN argv2}
  /\ Given(argv2, "--algorithm", "tr") = "mma"
  /\ IsIP(driver2.opt_settings)

Choices1 == {"ip", "tr", "mma"}

\* the values the command line gives to --algorithm
GivenAlgorithms1 ==
  {argv1[k + 1] : k \in {j \in DOMAIN argv1 : j % 2 = 1 /\ argv1[j] = "--algorithm"}}

\* C6: --algorithm accepts only 'ip', 'tr' and 'mma' and defaults to 'ip'; an
\* accepted value is the driver's 'algorithm' option when setup and
\* run_driver are reached; any other value ends the program in the argument
\* parser before the problem is built, so the driver is never set up or run
\* with an algorithm outside {ip, tr, mma}.
C6_Choices ==
  /\ prob1.is_setup =>
       /\ prob1.setup_with \in Choices1
       /\ prob1.setup_with = Given(argv1, "--algorithm", "ip")
       /\ driver1.options["algorithm"] = prob1.setup_with
  /\ pc1 \in {"print_min", "print_xy", "done"} =>
       /\ prob1.ran_with \in Choices1
       /\ prob1.ran_with = Given(argv1, "--algorithm", "ip")
  /\ ~ (GivenAlgorithms1 \subseteq Choices1) =>
       /\ pc1 \in {"parse_args", "exit"}
       /\ prob1 = NoProblem
       /\ driver1 = NoDriver
  /\ pc1 = "exit" => ~ (GivenAlgorithms1 \subseteq Choices1)

C6_Witness ==
  /\ pc1 = "done"
  /\ Len(argv1) = 4
  /\ argv1[2] = "tr"
  /\ prob1.ran_with = "mma"
  /\ prob1.f = -27
====
